---- MODULE Spec2Model ----
(***************************************************************************)
(* A model of bgp.tools-peerfinder.py: main, get_user_input and the        *)
(* BGPToolsPeeringAnalyzer pipeline (whois queries, table and CSV          *)
(* downloads, related-ASN derivation, batched classification, reports).    *)
(*                                                                         *)
(* Python strings are sequences of one-character strings, so that split,   *)
(* strip, int() and str() are computed and not assumed.  What json.loads   *)
(* yields for a line of the table is given as a record (library code).     *)
(***************************************************************************)
EXTENDS Integers, Sequences, FiniteSets, TLC

(***************************************************************************)
(* Bounds of the model.                                                    *)
(***************************************************************************)
MaxLines == 2
MaxRespLines == 2
MaxPerm == 3
BigN == 101

(***************************************************************************)
(* Program constants.                                                      *)
(***************************************************************************)
batch_size == 100

(***************************************************************************)
(* Python string primitives.                                               *)
(***************************************************************************)
Digits == <<"0", "1", "2", "3", "4", "5", "6", "7", "8", "9">>

IsDigit(c) == \E i \in 1..10 : Digits[i] = c

DigitVal(c) == (CHOOSE i \in 1..10 : Digits[i] = c) - 1

IsSpace(c) == c \in {" ", "\t", "\r", "\n"}

\* c in s
Contains(s, c) == \E i \in 1..Len(s) : s[i] = c

\* s.strip()
RECURSIVE LStrip(_)
LStrip(s) == IF s # <<>> /\ IsSpace(Head(s)) THEN LStrip(Tail(s)) ELSE s

RECURSIVE RStrip(_)
RStrip(s) ==
  IF s # <<>> /\ IsSpace(s[Len(s)]) THEN RStrip(SubSeq(s, 1, Len(s) - 1)) ELSE s

Strip(s) == RStrip(LStrip(s))

\* s.split(c): the pieces between the occurrences of c, always at least one
RECURSIVE SplitAcc(_, _, _, _)
SplitAcc(s, c, cur, acc) ==
  IF s = <<>> THEN Append(acc, cur)
  ELSE IF Head(s) = c THEN SplitAcc(Tail(s), c, <<>>, Append(acc, cur))
  ELSE SplitAcc(Tail(s), c, Append(cur, Head(s)), acc)

Split(s, c) == SplitAcc(s, c, <<>>, <<>>)

\* s.startswith(p)
StartsWith(s, p) == Len(s) >= Len(p) /\ SubSeq(s, 1, Len(p)) = p

\* s.upper() on the letters the model uses
UpperChar(c) == IF c = "a" THEN "A" ELSE IF c = "s" THEN "S" ELSE c

Upper(s) == [i \in 1..Len(s) |-> UpperChar(s[i])]

(***************************************************************************)
(* Python integers.  An ASN may exceed the 32-bit signed integers of TLC   *)
(* (4294967295, 4294967296), so an integer is kept as sign and two         *)
(* decimal limbs: its magnitude is hi * 100000 + lo with 0 <= lo < 100000. *)
(***************************************************************************)
Num(n) == [neg |-> FALSE, hi |-> n \div 100000, lo |-> n % 100000]

Big(h, l) == [neg |-> FALSE, hi |-> h, lo |-> l]

IsZero(x) == x.hi = 0 /\ x.lo = 0

\* x <= 0
LeZero(x) == x.neg \/ IsZero(x)

\* x > y, for x and y not negative
GtNat(x, y) == x.hi > y.hi \/ (x.hi = y.hi /\ x.lo > y.lo)

\* x < y, the order sorted() uses
Less(x, y) ==
  IF x.neg # y.neg THEN x.neg
  ELSE IF x.neg THEN GtNat(x, y) ELSE GtNat(y, x)

RECURSIVE StrNat(_)
StrNat(n) ==
  IF n < 10 THEN <<Digits[n + 1]>>
  ELSE Append(StrNat(n \div 10), Digits[(n % 10) + 1])

\* the low limb written with all its five digits
Pad5(n) ==
  <<Digits[(n \div 10000) + 1], Digits[((n \div 1000) % 10) + 1],
    Digits[((n \div 100) % 10) + 1], Digits[((n \div 10) % 10) + 1],
    Digits[(n % 10) + 1]>>

\* str(x)
Str(x) ==
  (IF x.neg THEN <<"-">> ELSE <<>>)
    \o (IF x.hi = 0 THEN StrNat(x.lo) ELSE StrNat(x.hi) \o Pad5(x.lo))

RECURSIVE DigitsVal(_, _)
DigitsVal(s, acc) ==
  IF s = <<>> THEN acc ELSE DigitsVal(Tail(s), acc * 10 + DigitVal(Head(s)))

\* int(s): surrounding whitespace and one sign are accepted; anything else
\* than decimal digits raises ValueError (ok = FALSE)
PyInt(s) ==
  LET t == Strip(s)
      signed == t # <<>> /\ Head(t) \in {"+", "-"}
      d == IF signed THEN Tail(t) ELSE t
      cut == IF Len(d) > 5 THEN Len(d) - 5 ELSE 0
      h == DigitsVal(SubSeq(d, 1, cut), 0)
      l == DigitsVal(SubSeq(d, cut + 1, Len(d)), 0)
  IN IF d # <<>> /\ \A i \in 1..Len(d) : IsDigit(d[i])
     THEN [ok |-> TRUE,
           n |-> [neg |-> signed /\ Head(t) = "-" /\ (h # 0 \/ l # 0),
                  hi |-> h, lo |-> l]]
     ELSE [ok |-> FALSE, n |-> Num(0)]

(***************************************************************************)
(* download_table: the JSONL document and its parse.                       *)
(***************************************************************************)
\* JSON values of the fields CIDR and ASN as data.get returns them
JNone == [t |-> "none"]
JInt(n) == [t |-> "int", n |-> n]
JStr(s) == [t |-> "str", s |-> s]

\* Python truth value of a field
Truthy(v) ==
  CASE v.t = "none" -> FALSE
    [] v.t = "int" -> ~IsZero(v.n)
    [] v.t = "str" -> v.s # <<>>

\* int(asn) of line 134
IntOf(v) ==
  CASE v.t = "int" -> [ok |-> TRUE, n |-> v.n]
    [] v.t = "str" -> PyInt(v.s)
    [] OTHER -> [ok |-> FALSE, n |-> Num(0)]

\* A line of the document, by what line.strip() and json.loads make of it:
\* blank, a JSONDecodeError, a JSON value that is no object, or an object.
LBlank == [k |-> "blank"]
LTruncated == [k |-> "decode_error"]
LNotObject == [k |-> "value"]
LObj(cidr, asn) == [k |-> "obj", CIDR |-> cidr, ASN |-> asn]

\* prefix_to_asn[cidr] = v on a dict kept as a set of entries with unique keys
DictSet(d, key, v) ==
  {e \in d : e.prefix # key} \union {[prefix |-> key, asn |-> v]}

\* One pass of the loop body of lines 126-138 over prefix_to_asn.
\* raised: an exception other than JSONDecodeError left the loop body
\* (AttributeError of data.get, ValueError or TypeError of int) and is caught
\* by the handler of line 143 only.
ParseLine(st, line) ==
  IF st.raised THEN st
  ELSE CASE line.k = "blank" -> st
         [] line.k = "decode_error" -> st
         [] line.k = "value" -> [st EXCEPT !.raised = TRUE]
         [] line.k = "obj" ->
              IF Truthy(line.CIDR) /\ Truthy(line.ASN)
              THEN IF IntOf(line.ASN).ok
                   THEN [st EXCEPT !.map = DictSet(st.map, line.CIDR.s, IntOf(line.ASN).n),
                                   !.count = st.count + 1]
                   ELSE [st EXCEPT !.raised = TRUE]
              ELSE st

\* The loop of line 126 over the lines lo..hi of the document
RECURSIVE ParseLines(_, _, _, _)
ParseLines(doc, lo, hi, st) ==
  IF lo > hi THEN st
  ELSE IF lo = hi THEN ParseLine(st, doc[lo])
  ELSE LET mid == (lo + hi) \div 2
           left == ParseLines(doc, lo, mid, st)
       IN IF left.raised THEN left ELSE ParseLines(doc, mid + 1, hi, left)

\* download_table's return value for what lines 116-118 give: "error" is a
\* network error or raise_for_status raising, "ok" a document; any exception
\* gives {} (lines 143-145)
download_table(resp) ==
  IF resp.k # "ok" THEN {}
  ELSE LET st == ParseLines(resp.doc, 1, Len(resp.doc), [raised |-> FALSE, map |-> {}, count |-> 0])
       IN IF st.raised THEN {} ELSE st.map

(***************************************************************************)
(* get_related_asns: grouping keys and the related set.                    *)
(***************************************************************************)
\* The grouping key a prefix contributes (lines 249-259 and 263-276), as a
\* set: empty when the prefix has no '/', or an address with no '.' or ':'.
NetworkOfFirstOnly(prefix) ==
  IF ~Contains(prefix, "/") THEN {}
  ELSE LET ip_part == Split(prefix, "/")[1]
       IN IF Contains(ip_part, ".") THEN {Split(ip_part, ".")[1] \o <<".">>}
          ELSE IF Contains(ip_part, ":") THEN {Split(ip_part, ":")[1] \o <<":">>}
          ELSE {}

NetworkOf(prefix) ==
  IF ~Contains(prefix, "/") THEN {}
  ELSE LET ip_part == Split(prefix, "/")[1]
       IN IF Contains(ip_part, ".")
          THEN LET octets == Split(ip_part, ".")
               IN IF Len(octets) >= 2 THEN {octets[1] \o <<".">> \o octets[2]} ELSE {}
          ELSE IF Contains(ip_part, ":")
          THEN LET parts == Split(ip_part, ":")
               IN IF Len(parts) >= 2 THEN {parts[1] \o <<":">> \o parts[2]} ELSE {}
          ELSE {}

\* lines 235-238
our_prefixes(table_data, target) == {e.prefix : e \in {x \in table_data : x.asn = target}}

\* lines 247-259
our_networks(table_data, target) ==
  UNION {NetworkOf(p) : p \in our_prefixes(table_data, target)}

\* lines 262-276
related_asns_unfiltered(table_data, target) ==
  {e.asn : e \in {x \in table_data :
      NetworkOf(x.prefix) \intersect our_networks(table_data, target) # {}}}

related_asns_of(table_data, target) ==
  {e.asn : e \in {x \in table_data :
      /\ x.asn # target
      /\ NetworkOf(x.prefix) \intersect our_networks(table_data, target) # {}}}

(***************************************************************************)
(* The inputs the model draws from.                                        *)
(***************************************************************************)
P_1_2_3 == <<"1", ".", "2", ".", "3", ".", "0", "/", "2", "4">>
P_1_2_4 == <<"1", ".", "2", ".", "4", ".", "0", "/", "2", "4">>
P_1_2_5 == <<"1", ".", "2", ".", "5", ".", "0", "/", "2", "4">>
P_1_3_0 == <<"1", ".", "3", ".", "0", ".", "0", "/", "1", "6">>
P_NoSlash == <<"1", ".", "2", ".", "9", ".", "9">>
P6_db8 == <<"2", "0", "0", "1", ":", "d", "b", "8", ":", ":", "/", "3", "2">>
P6_db8_1 == <<"2", "0", "0", "1", ":", "d", "b", "8", ":", "1", ":", ":", "/", "4", "8">>

\* The ASN at the top of the 32-bit range (line 505) and its successor
MAX_ASN == Big(42949, 67295)
OverMax == Big(42949, 67296)

\* The target of the tables below
T64 == Num(64)

TableLines ==
  { LBlank, LTruncated, LNotObject,
    LObj(JStr(P_1_2_3), JInt(T64)),
    LObj(JStr(P_1_2_4), JInt(Num(65))),
    LObj(JStr(P_1_3_0), JInt(Num(100))),
    LObj(JStr(P_1_2_4), JNone),
    LObj(JNone, JInt(Num(65))),
    LObj(JStr(P_1_2_5), JStr(<<"x">>)),
    LObj(JStr(P6_db8), JInt(T64)),
    LObj(JStr(P6_db8_1), JInt(Num(100))),
    LObj(JStr(P_NoSlash), JInt(Num(101))) }

SeqsUpTo(S, n) == UNION {[1..k -> S] : k \in 0..n}

\* What requests.get and raise_for_status give download_table
TableResponses ==
  {[k |-> "error", doc |-> <<>>]}
    \union {[k |-> "ok", doc |-> d] : d \in SeqsUpTo(TableLines, MaxLines)}

\* A table of n + 1 lines: the target's prefix 1.2.0.0/24 and, for k in 1..n,
\* the prefix 1.2.k.0/24 of ASN 64 + k
BigDoc(n) ==
  [k \in 1..(n + 1) |->
     LObj(JStr(<<"1", ".", "2", ".">> \o StrNat(k - 1) \o <<".", "0", "/", "2", "4">>),
          JInt(Num(64 + k - 1)))]

\* Command-line values of --asn and --useragent; NoArg is an omitted flag
NoArg == [given |-> FALSE]
Arg(v) == [given |-> TRUE, v |-> v]

UA_Empty == <<>>
UA_NoAt == <<"t", "o", "o", "l">>
UA_Good == <<"a", "@", "b">>

ArgAsns == {NoArg, Arg(Num(0)), Arg(T64), Arg(MAX_ASN), Arg(OverMax)}
ArgUserAgents == {NoArg, Arg(UA_Empty), Arg(UA_NoAt), Arg(UA_Good)}

\* What the user may type at the ASN prompt and at the User-Agent prompt
AsnInputs ==
  { <<>>, <<"x">>, <<"0">>, <<"6", "4">>, <<"a", "s", "6", "4">>,
    <<"4", "2", "9", "4", "9", "6", "7", "2", "9", "5">>,
    <<"4", "2", "9", "4", "9", "6", "7", "2", "9", "6">> }
UserAgentInputs == {<<" ">>, UA_NoAt, <<" ", "a", "@", "b", " ">>}

VARIABLES
  pc,            \* position in main / get_user_input / run_analysis
  args,          \* args.asn and args.useragent until main reads them
  mode,          \* "flags" or "interactive" once main has chosen
  target_asn, user_agent,
  probe,         \* outcome of the connectivity GET: "none", "error" or a status
  exit_code,     \* -1 while the process runs
  events,        \* network operations and stages, in the order they happened
  open_socks,    \* sockets of returned whois calls that are still open
  notices,       \* log messages of interest
  asn_info, asn_names,
  table_resp, table_data,
  related_asns, asn_list, asn_queries, batch_i, all_results, sent, sleeps,
  answered,      \* ASNs of the well-formed records of the received responses
  res_i, line_i, potential_peers, non_peers,
  files          \* the report files written, in order

vars ==
  <<pc, args, mode, target_asn, user_agent, probe, exit_code, events,
    open_socks, notices, asn_info, asn_names, table_resp, table_data,
    related_asns, asn_list, asn_queries, batch_i, all_results, sent, sleeps,
    answered, res_i, line_i, potential_peers, non_peers, files>>

inputVars == <<args, mode, target_asn, user_agent>>
mainVars == <<probe, exit_code>>
analysisVars ==
  <<asn_info, asn_names, table_resp, table_data, related_asns, asn_list,
    asn_queries, batch_i, all_results, sent, sleeps, answered, res_i, line_i,
    potential_peers, non_peers, files>>

\* table_resp while download_table has no response at hand
NoTable == [k |-> "none", doc |-> <<>>]

\* The analysis state before run_analysis has run
FreshAnalysis ==
  /\ asn_info = <<>>
  /\ asn_names = {}
  /\ table_resp = NoTable
  /\ table_data = {}
  /\ related_asns = {}
  /\ asn_list = <<>>
  /\ asn_queries = <<>>
  /\ batch_i = 0
  /\ all_results = <<>>
  /\ sent = <<>>
  /\ sleeps = 0
  /\ answered = {}
  /\ res_i = 1
  /\ line_i = 1
  /\ potential_peers = {}
  /\ non_peers = {}
  /\ files = <<>>

\* After parser.parse_args() (line 493)
Init ==
  /\ pc = "main"
  /\ args \in [asn : ArgAsns, useragent : ArgUserAgents]
  /\ mode = "none"
  /\ target_asn = Num(0)
  /\ user_agent = <<>>
  /\ probe = "none"
  /\ exit_code = -1
  /\ events = <<>>
  /\ open_socks = 0
  /\ notices = {}
  /\ FreshAnalysis

(***************************************************************************)
(* main and get_user_input.                                                *)
(***************************************************************************)
\* lines 496-502; args is not read again but for args.debug
main_choose_mode ==
  /\ pc = "main"
  /\ IF ~args.asn.given \/ ~args.useragent.given
     THEN /\ mode' = "interactive"
          /\ pc' = "prompt_asn"
          /\ UNCHANGED <<target_asn, user_agent>>
     ELSE /\ mode' = "flags"
          /\ target_asn' = args.asn.v
          /\ user_agent' = args.useragent.v
          /\ pc' = "validate"
  /\ args' = [asn |-> NoArg, useragent |-> NoArg]
  /\ UNCHANGED <<mainVars, events, open_socks, notices, analysisVars>>

\* The ASN the prompt loop of lines 435-456 accepts for a typed line, if any
AsnPrompt(typed) ==
  LET t == Strip(typed)
      u == IF StartsWith(Upper(t), <<"A", "S">>) THEN SubSeq(t, 3, Len(t)) ELSE t
      r == PyInt(u)
  IN IF t = <<>> THEN [ok |-> FALSE, n |-> Num(0)]
     ELSE IF ~r.ok THEN r
     ELSE IF LeZero(r.n) \/ GtNat(r.n, MAX_ASN) THEN [ok |-> FALSE, n |-> Num(0)]
     ELSE r

\* One round of the ASN prompt: break on an accepted line, ask again otherwise
get_user_input_asn ==
  /\ pc = "prompt_asn"
  /\ \E typed \in AsnInputs :
       IF AsnPrompt(typed).ok
       THEN target_asn' = AsnPrompt(typed).n /\ pc' = "prompt_ua"
       ELSE UNCHANGED <<target_asn, pc>>
  /\ UNCHANGED <<args, mode, user_agent, mainVars, events, open_socks, notices,
                 analysisVars>>

\* The User-Agent the prompt loop of lines 459-469 accepts for a typed line
UserAgentPrompt(typed) ==
  LET t == Strip(typed) IN [ok |-> t # <<>> /\ Contains(t, "@"), ua |-> t]

\* One round of the User-Agent prompt; on acceptance get_user_input returns
get_user_input_useragent ==
  /\ pc = "prompt_ua"
  /\ \E typed \in UserAgentInputs :
       IF UserAgentPrompt(typed).ok
       THEN user_agent' = UserAgentPrompt(typed).ua /\ pc' = "validate"
       ELSE UNCHANGED <<user_agent, pc>>
  /\ UNCHANGED <<args, mode, target_asn, mainVars, events, open_socks, notices,
                 analysisVars>>

\* The checks of lines 505 and 511
ValidAsn(asn) == ~(LeZero(asn) \/ GtNat(asn, MAX_ASN))

ValidUserAgentNoAtCheck(ua) == ua # <<>>

ValidUserAgent(ua) == ~(ua = <<>> \/ ~Contains(ua, "@"))

\* lines 504-514: sys.exit(1) on an invalid ASN or User-Agent
main_validate ==
  /\ pc = "validate"
  /\ IF ValidAsn(target_asn) /\ ValidUserAgent(user_agent)
     THEN pc' = "probe" /\ UNCHANGED exit_code
     ELSE pc' = "exit" /\ exit_code' = 1
  /\ UNCHANGED <<inputVars, probe, events, open_socks, notices, analysisVars>>

\* What the GET of line 520 may give: a RequestException or a response of
\* any status
ProbeOutcomes == {"error", "200", "500"}

\* The branch main takes after the GET (lines 518-525)
ProbeNeverAborts(outcome) == FALSE

ProbeAborts(outcome) == outcome = "error"

main_probe ==
  /\ pc = "probe"
  /\ \E outcome \in ProbeOutcomes :
       /\ probe' = outcome
       /\ IF ProbeAborts(outcome)
          THEN pc' = "exit" /\ exit_code' = 1
          ELSE pc' = "step1" /\ UNCHANGED exit_code
  /\ events' = Append(events, "probe")
  /\ UNCHANGED <<inputVars, open_socks, notices, analysisVars>>

(***************************************************************************)
(* The whois client.                                                       *)
(***************************************************************************)
\* How the try block of whois_query / bulk_whois_query may go: socket.socket
\* raising, connect raising, send raising, recv timing out, or the peer
\* closing the connection after its response
WhoisOutcomes == {"socket_error", "connect_error", "send_error", "recv_timeout", "ok"}

\* Whether the call's code has closed the socket it created when it returns.
\* sock.close() (lines 63 and 99) is reached at the end of the receive loop
\* only; the handlers of lines 70 and 106 return without closing.
ClosedByCall(outcome) == outcome = "ok"

\* Sockets the returned call leaves open: none if no socket was created or
\* the call closed it; otherwise the socket object is unreferenced and it is
\* up to the runtime whether it is already finalised (reclaimed) or still open
LeftOpen(outcome, reclaimed) ==
  IF outcome = "socket_error" \/ ClosedByCall(outcome) \/ reclaimed THEN 0 ELSE 1

\* The text the call returns: the decoded response, or "" from the handler
WhoisResult(outcome, text) == IF outcome = "ok" THEN text ELSE <<>>

\* A whois record of seven fields with field 0 = f0, and one of two fields
Rec(f0) == f0 \o <<"|", "|", "|", "|", "U", "S", "|", "|", "N">>
ShortRec(f0) == f0 \o <<"|", "N">>

RECURSIVE JoinLines(_)
JoinLines(ls) ==
  IF ls = <<>> THEN <<>>
  ELSE IF Len(ls) = 1 THEN ls[1]
  ELSE ls[1] \o <<"\n">> \o JoinLines(Tail(ls))

\* Lines a whois response may hold, each with what it is: wf says that it is
\* a well-formed record and asn is then the ASN of its field 0
WhoisLines ==
  { [text |-> Rec(<<"6", "5">>), wf |-> TRUE, asn |-> Num(65)],
    [text |-> Rec(<<" ", "1", "0", "0", " ">>), wf |-> TRUE, asn |-> Num(100)],
    [text |-> Rec(<<"6", "4">>), wf |-> TRUE, asn |-> T64],
    [text |-> Rec(<<"A", "S", "6", "5">>), wf |-> FALSE, asn |-> Num(65)],
    [text |-> ShortRec(<<"1", "0", "0">>), wf |-> FALSE, asn |-> Num(100)],
    [text |-> <<" ">>, wf |-> FALSE, asn |-> Num(0)] }

\* The lines drawn for a run of more than one batch
BigWhoisLines == {l \in WhoisLines : l.wf}

\* The responses a bulk query of a list of n targets may get
WhoisResponses(n) ==
  SeqsUpTo(IF n > batch_size THEN BigWhoisLines ELSE WhoisLines, MaxRespLines)

ResponseText(resp) == JoinLines([k \in 1..Len(resp) |-> resp[k].text])

\* Responses to the single query for the target
TargetWhoisTexts == {<<>>, Rec(<<"6", "4">>), Rec(<<"6", "5">>)}

\* lines 190-204: the name of the first record whose field 0 is str(target)
RECURSIVE asn_info_scan(_, _)
asn_info_scan(lines, target) ==
  IF lines = <<>> THEN <<"A", "S">> \o Str(target)
  ELSE LET line == Head(lines)
           parts == Split(line, "|")
       IN IF Strip(line) # <<>> /\ Len(parts) >= 7 /\ Strip(parts[1]) = Str(target)
          THEN Strip(parts[7])
          ELSE asn_info_scan(Tail(lines), target)

get_asn_info(result, target) ==
  IF result # <<>> THEN asn_info_scan(Split(Strip(result), "\n"), target)
  ELSE <<"A", "S">> \o Str(target)

(***************************************************************************)
(* download_asn_names.                                                     *)
(***************************************************************************)
\* s.strip('"')
RECURSIVE StripQuotes(_)
StripQuotes(s) ==
  IF s # <<>> /\ Head(s) = "\"" THEN StripQuotes(Tail(s))
  ELSE IF s # <<>> /\ s[Len(s)] = "\"" THEN StripQuotes(SubSeq(s, 1, Len(s) - 1))
  ELSE s

NamesSet(d, key, v) == {e \in d : e.asn # key} \union {[asn |-> key, name |-> v]}

\* lines 161-175 for one line.  parts[0] and parts[1] of split(',', 2) are
\* those of split(',')
csv_line(names, line) ==
  LET parts == Split(line, ",")
      asn_str == Strip(parts[1])
      num == PyInt(SubSeq(asn_str, 3, Len(asn_str)))
  IN IF Strip(line) # <<>> /\ Len(parts) >= 2
        /\ StartsWith(asn_str, <<"A", "S">>) /\ num.ok
     THEN NamesSet(names, num.n, StripQuotes(Strip(parts[2])))
     ELSE names

RECURSIVE csv_lines(_, _)
csv_lines(lines, names) ==
  IF lines = <<>> THEN names ELSE csv_lines(Tail(lines), csv_line(names, Head(lines)))

\* lines 151-182: {} on any failure, else the parse of all lines but the header
download_asn_names(resp) ==
  IF ~resp.ok THEN {}
  ELSE csv_lines(Tail(Split(Strip(resp.text), "\n")), {})

CsvText ==
  JoinLines(<< <<"a", "s", "n", ",", "n", "a", "m", "e">>,
               <<"A", "S", "6", "5", ",", "\"", "A", "\"", ",", "x">>,
               <<"6", "5", ",", "B">>,
               <<"A", "S", "x", ",", "C">>,
               <<"z", "z">> >>)

CsvResponses == {[ok |-> FALSE, text |-> <<>>], [ok |-> TRUE, text |-> CsvText]}

(***************************************************************************)
(* run_analysis, steps 1 to 3.                                             *)
(***************************************************************************)
\* The order of the steps of run_analysis (lines 388-410): the step that
\* follows a step
StepAfterTableFirst(step) ==
  CASE step = "step1" -> "step3"
    [] step = "step3" -> "step2"
    [] step = "step2" -> "step4"
    [] step = "step4" -> "step5"

StepAfter(step) ==
  CASE step = "step1" -> "step2"
    [] step = "step2" -> "step3"
    [] step = "step3" -> "step4"
    [] step = "step4" -> "step5"

\* Lines 400-402 of run_analysis for the set get_related_asns returned: the
\* notice and the return (the process then ends with status 0), or the next
\* step
AfterRelatedNoCheck(rel) ==
  /\ pc' = StepAfter("step3")
  /\ UNCHANGED <<notices, exit_code>>

AfterRelated(rel) ==
  IF rel = {}
  THEN /\ notices' = notices \union {"No related ASNs found"}
       /\ pc' = "exit"
       /\ exit_code' = 0
  ELSE /\ pc' = StepAfter("step3")
       /\ UNCHANGED <<notices, exit_code>>

\* STEP 1 (lines 389-390): get_asn_info and its whois_query
run_analysis_step1 ==
  /\ pc = "step1"
  /\ \E outcome \in WhoisOutcomes, text \in TargetWhoisTexts, reclaimed \in BOOLEAN :
       /\ outcome # "ok" => text = <<>>
       /\ (outcome \in {"socket_error", "ok"}) => ~reclaimed
       /\ asn_info' = get_asn_info(WhoisResult(outcome, text), target_asn)
       /\ open_socks' = open_socks + LeftOpen(outcome, reclaimed)
  /\ events' = Append(events, "whois_target")
  /\ pc' = StepAfter("step1")
  /\ UNCHANGED <<inputVars, mainVars, notices, asn_names, table_resp, table_data,
                 related_asns, asn_list, asn_queries, batch_i, all_results, sent,
                 sleeps, answered, res_i, line_i, potential_peers, non_peers, files>>

\* STEP 2 (lines 393-394)
run_analysis_step2 ==
  /\ pc = "step2"
  /\ \E resp \in CsvResponses : asn_names' = download_asn_names(resp)
  /\ events' = Append(events, "asn_names")
  /\ pc' = StepAfter("step2")
  /\ UNCHANGED <<inputVars, mainVars, open_socks, notices, asn_info, table_resp,
                 table_data, related_asns, asn_list, asn_queries, batch_i,
                 all_results, sent, sleeps, answered, res_i, line_i,
                 potential_peers, non_peers, files>>

\* STEP 3, get_related_asns up to line 232: the table download, and the
\* return of an empty set for an empty table
get_related_asns_download ==
  /\ pc = "step3"
  /\ \E resp \in TableResponses :
       /\ table_resp' = resp
       /\ table_data' = download_table(resp)
       /\ IF download_table(resp) = {}
          THEN related_asns' = {} /\ AfterRelated({})
          ELSE /\ pc' = "derive"
               /\ UNCHANGED <<related_asns, notices, exit_code>>
  /\ events' = Append(events, "table")
  /\ UNCHANGED <<inputVars, probe, open_socks, asn_info, asn_names, asn_list,
                 asn_queries, batch_i, all_results, sent, sleeps, answered, res_i,
                 line_i, potential_peers, non_peers, files>>

\* get_related_asns, lines 234-279, and its return to run_analysis
get_related_asns_derive ==
  /\ pc = "derive"
  /\ related_asns' = related_asns_of(table_data, target_asn)
  /\ AfterRelated(related_asns_of(table_data, target_asn))
  /\ events' = Append(events, "related")
  /\ UNCHANGED <<inputVars, probe, open_socks, asn_info, asn_names, table_resp,
                 table_data, asn_list, asn_queries, batch_i, all_results, sent,
                 sleeps, answered, res_i, line_i, potential_peers, non_peers, files>>

(***************************************************************************)
(* analyze_asn_relationships.                                              *)
(***************************************************************************)
Min(a, b) == IF a < b THEN a ELSE b

\* sorted(S) of a set: the element at place k has k - 1 elements below it
Sorted(S) ==
  [k \in 1..Cardinality(S) |->
     CHOOSE x \in S : Cardinality({y \in S : Less(y, x)}) = k - 1]

Reverse(q) == [k \in 1..Len(q) |-> q[Len(q) + 1 - k]]

\* list(related_asns) of line 406: a set has no order of its own.  Every
\* order of a set of at most MaxPerm elements, two orders of a larger one.
ListOrders(S) ==
  IF Cardinality(S) <= MaxPerm
  THEN {q \in [1..Cardinality(S) -> S] : \A a, b \in 1..Cardinality(S) : q[a] = q[b] => a = b}
  ELSE {Sorted(S), Reverse(Sorted(S))}

InList(x, q) == \E k \in 1..Len(q) : q[k] = x

\* lines 316-333 for one line of a result: the two sets after it
classify_line_no_else(line, pp, np, list, target) ==
  LET parts == Split(line, "|")
      num == PyInt(Strip(parts[1]))
  IN IF Strip(line) # <<>> /\ Len(parts) >= 7 /\ num.ok
        /\ InList(num.n, list) /\ num.n # target
     THEN IF Len(Str(num.n)) = Len(Str(target))
          THEN [pp |-> pp \union {num.n}, np |-> np \union {num.n}]
          ELSE [pp |-> pp, np |-> np \union {num.n}]
     ELSE [pp |-> pp, np |-> np]

classify_line_ge(line, pp, np, list, target) ==
  LET parts == Split(line, "|")
      num == PyInt(Strip(parts[1]))
  IN IF Strip(line) # <<>> /\ Len(parts) >= 7 /\ num.ok
        /\ InList(num.n, list) /\ num.n # target
     THEN IF Len(Str(num.n)) >= Len(Str(target))
          THEN [pp |-> pp \union {num.n}, np |-> np]
          ELSE [pp |-> pp, np |-> np \union {num.n}]
     ELSE [pp |-> pp, np |-> np]

classify_line(line, pp, np, list, target) ==
  LET parts == Split(line, "|")
      num == PyInt(Strip(parts[1]))
  IN IF Strip(line) # <<>> /\ Len(parts) >= 7 /\ num.ok
        /\ InList(num.n, list) /\ num.n # target
     THEN IF Len(Str(num.n)) = Len(Str(target))
          THEN [pp |-> pp \union {num.n}, np |-> np]
          ELSE [pp |-> pp, np |-> np \union {num.n}]
     ELSE [pp |-> pp, np |-> np]

\* STEP 4, line 406 and lines 283-293: the list, the queries, the empty
\* result list.  The locals of get_related_asns are gone by now.
analyze_start ==
  /\ pc = "step4"
  /\ \E q \in ListOrders(related_asns) :
       /\ asn_list' = q
       /\ asn_queries' = [k \in 1..Len(q) |-> <<"a", "s">> \o Str(q[k])]
       /\ pc' = IF Len(q) = 0 THEN "classify" ELSE "batch"
       /\ events' = IF Len(q) = 0 THEN Append(events, "classify") ELSE events
  /\ batch_i' = 0
  /\ all_results' = <<>>
  /\ table_resp' = NoTable
  /\ table_data' = {}
  /\ potential_peers' = {}
  /\ non_peers' = {}
  /\ UNCHANGED <<inputVars, mainVars, open_socks, notices, asn_info, asn_names,
                 related_asns, sent, sleeps, answered, res_i, line_i, files>>

\* The slice with one element too many: asn_queries[i:i + batch_size + 1]
batch_at_overlap(queries, i) ==
  SubSeq(queries, i + 1, Min(i + batch_size + 1, Len(queries)))

\* batch = asn_queries[i:i + batch_size] of line 296, i counted from 0
batch_at(queries, i) ==
  SubSeq(queries, i + 1, Min(i + batch_size, Len(queries)))

\* time.sleep(1) of line 304
pause_seconds == 1

\* One round of the loop of lines 295-304: the batch, its bulk_whois_query,
\* the result kept if not empty, the sleep; after the last round lines 309-310
analyze_batch ==
  /\ pc = "batch"
  /\ batch_i < Len(asn_queries)
  /\ LET batch == batch_at(asn_queries, batch_i)
     IN \E outcome \in WhoisOutcomes, resp \in WhoisResponses(Len(asn_queries)),
           reclaimed \in BOOLEAN :
          /\ outcome # "ok" => resp = <<>>
          /\ (outcome \in {"socket_error", "ok"}) => ~reclaimed
          /\ LET result == WhoisResult(outcome, ResponseText(resp))
             IN /\ all_results' =
                     IF result # <<>> THEN Append(all_results, result) ELSE all_results
                /\ answered' =
                     IF result # <<>>
                     THEN answered \union
                            {resp[k].asn : k \in {j \in 1..Len(resp) : resp[j].wf}}
                     ELSE answered
          /\ open_socks' = open_socks + LeftOpen(outcome, reclaimed)
          /\ sent' = Append(sent, batch)
  /\ sleeps' = sleeps + pause_seconds
  /\ batch_i' = batch_i + batch_size
  /\ IF batch_i + batch_size < Len(asn_queries)
     THEN pc' = "batch" /\ events' = Append(events, "bulk_whois")
     ELSE pc' = "classify" /\ events' = events \o <<"bulk_whois", "classify">>
  /\ res_i' = 1
  /\ line_i' = 1
  /\ UNCHANGED <<inputVars, mainVars, notices, asn_info, asn_names, table_resp,
                 table_data, related_asns, asn_list, asn_queries, potential_peers,
                 non_peers, files>>

\* One line of one result in the loops of lines 312-333
analyze_classify_line ==
  /\ pc = "classify"
  /\ res_i <= Len(all_results)
  /\ LET lines == Split(Strip(all_results[res_i]), "\n")
         sets == classify_line(lines[line_i], potential_peers, non_peers,
                               asn_list, target_asn)
     IN /\ potential_peers' = sets.pp
        /\ non_peers' = sets.np
        /\ IF line_i < Len(lines)
           THEN line_i' = line_i + 1 /\ UNCHANGED res_i
           ELSE line_i' = 1 /\ res_i' = res_i + 1
  /\ UNCHANGED <<pc, inputVars, mainVars, events, open_socks, notices, asn_info,
                 asn_names, table_resp, table_data, related_asns, asn_list,
                 asn_queries, batch_i, all_results, sent, sleeps, answered, files>>

\* line 335: the return to run_analysis
analyze_return ==
  /\ pc = "classify"
  /\ res_i > Len(all_results)
  /\ pc' = StepAfter("step4")
  /\ UNCHANGED <<inputVars, mainVars, events, open_socks, notices, analysisVars>>

(***************************************************************************)
(* write_results and the end of run_analysis.                              *)
(***************************************************************************)
\* asn_names.get(asn, f'AS{asn}')
NameOf(names, asn) ==
  IF \E e \in names : e.asn = asn
  THEN (CHOOSE e \in names : e.asn = asn).name
  ELSE <<"A", "S">> \o Str(asn)

\* One report: its kind, the Total line and the blocks in sorted order
Report(kind, asns, names) ==
  [kind |-> kind, total |-> Cardinality(asns),
   blocks |-> [k \in 1..Cardinality(asns) |->
                 [asn |-> Sorted(asns)[k], name |-> NameOf(names, Sorted(asns)[k])]]]

\* write_results that leaves out the report of an empty set
write_results_skip_empty(outcome, peers, others, names) ==
  CASE outcome = "fail_first" -> <<>>
    [] outcome = "fail_second" ->
         IF peers = {} THEN <<>> ELSE <<Report("potential_peers", peers, names)>>
    [] outcome = "ok" ->
         (IF peers = {} THEN <<>> ELSE <<Report("potential_peers", peers, names)>>)
         \o (IF others = {} THEN <<>> ELSE <<Report("other_asns", others, names)>>)

\* The files write_results leaves for how far it got: open() of the first or
\* of the second file may raise OSError
write_results(outcome, peers, others, names) ==
  CASE outcome = "fail_first" -> <<>>
    [] outcome = "fail_second" -> <<Report("potential_peers", peers, names)>>
    [] outcome = "ok" -> <<Report("potential_peers", peers, names),
                           Report("other_asns", others, names)>>

\* STEP 5 and the summary (lines 409-421), or the handler of lines 423-427
run_analysis_step5 ==
  /\ pc = "step5"
  /\ \E outcome \in {"ok", "fail_first", "fail_second"} :
       /\ files' = write_results(outcome, potential_peers, non_peers, asn_names)
       /\ exit_code' = IF outcome = "ok" THEN 0 ELSE 1
       /\ notices' = IF outcome = "ok"
                     THEN notices \union {"Analysis completed successfully!"}
                     ELSE notices \union {"ERROR during analysis"}
  /\ events' = Append(events, "write")
  /\ pc' = "exit"
  /\ UNCHANGED <<inputVars, probe, open_socks, asn_info, asn_names, table_resp,
                 table_data, related_asns, asn_list, asn_queries, batch_i,
                 all_results, sent, sleeps, answered, res_i, line_i,
                 potential_peers, non_peers>>

Next ==
  \/ main_choose_mode
  \/ get_user_input_asn
  \/ get_user_input_useragent
  \/ main_validate
  \/ main_probe
  \/ run_analysis_step1
  \/ run_analysis_step2
  \/ get_related_asns_download
  \/ get_related_asns_derive
  \/ analyze_start
  \/ analyze_batch
  \/ analyze_classify_line
  \/ analyze_return
  \/ run_analysis_step5

Spec == Init /\ [][Next]_vars

\* Numbers of related ASNs the analysis starts from: a single one, one full
\* batch, one more than a batch, and two full batches.
AnalyzeSizes == {1, batch_size, BigN, 2 * batch_size}

(***************************************************************************)
(* analyze_asn_relationships on related sets of up to two batches: the run  *)
(* of a valid invocation that downloaded BigDoc(n) for one of the sizes of  *)
(* AnalyzeSizes, at the start of step 4.                                   *)
(***************************************************************************)
InitAnalyze ==
  /\ pc = "step4"
  /\ args = [asn |-> NoArg, useragent |-> NoArg]
  /\ mode = "flags"
  /\ target_asn = T64
  /\ user_agent = UA_Good
  /\ probe = "200"
  /\ exit_code = -1
  /\ events = <<"probe", "whois_target", "asn_names", "table", "related">>
  /\ open_socks = 0
  /\ notices = {}
  /\ asn_info = get_asn_info(<<>>, T64)
  /\ asn_names = download_asn_names([ok |-> TRUE, text |-> CsvText])
  /\ \E n \in AnalyzeSizes :
       /\ table_resp = [k |-> "ok", doc |-> BigDoc(n)]
       /\ table_data = download_table([k |-> "ok", doc |-> BigDoc(n)])
       /\ related_asns = related_asns_of(download_table([k |-> "ok", doc |-> BigDoc(n)]), T64)
  /\ asn_list = <<>>
  /\ asn_queries = <<>>
  /\ batch_i = 0
  /\ all_results = <<>>
  /\ sent = <<>>
  /\ sleeps = 0
  /\ answered = {}
  /\ res_i = 1
  /\ line_i = 1
  /\ potential_peers = {}
  /\ non_peers = {}
  /\ files = <<>>

NextAnalyze ==
  \/ analyze_start
  \/ analyze_batch
  \/ analyze_classify_line
  \/ analyze_return
  \/ run_analysis_step5

SpecAnalyze == InitAnalyze /\ [][NextAnalyze]_vars
(***************************************************************************)
(* What the properties below are stated with, written from what a route    *)
(* table, a grouping key and a digit count are and not from the code.      *)
(***************************************************************************)
Has(q, x) == \E k \in 1..Len(q) : q[k] = x

\* The places of c in s
Places(s, c) == {k \in 1..Len(s) : s[k] = c}

\* s up to its n-th c (not included), or all of s if it has fewer
Before(s, c, n) ==
  IF Cardinality(Places(s, c)) < n THEN s
  ELSE SubSeq(s, 1, (CHOOSE k \in Places(s, c) :
                       Cardinality({j \in Places(s, c) : j < k}) = n - 1) - 1)

\* A prefix is address/length; its address is IPv4 if it has a dot, IPv6 if
\* it has none and has a colon.  A table key of another shape has no
\* grouping key.
IsPrefix(p) == Places(p, "/") # {}
AddressOf(p) == Before(p, "/", 1)
HasGroupKey(p) ==
  IsPrefix(p) /\ (Places(AddressOf(p), ".") # {} \/ Places(AddressOf(p), ":") # {})

\* The first two octets, or the first two hextets
GroupKey(p) ==
  IF Places(AddressOf(p), ".") # {} THEN Before(AddressOf(p), ".", 2)
  ELSE Before(AddressOf(p), ":", 2)

\* The origin ASNs other than t that share a grouping key with a prefix of t
SharingKey(table, t) ==
  {e.asn : e \in {x \in table :
      /\ x.asn # t
      /\ HasGroupKey(x.prefix)
      /\ \E o \in table :
           o.asn = t /\ HasGroupKey(o.prefix) /\ GroupKey(o.prefix) = GroupKey(x.prefix)}}

\* A well-formed line of the table: an object with a CIDR string and an
\* integer ASN
WellFormedLine(l) ==
  /\ l.k = "obj"
  /\ l.CIDR.t = "str" /\ l.CIDR.s # <<>>
  /\ l.ASN.t = "int" /\ ~IsZero(l.ASN.n)

\* 1 <= x <= 4294967295
InAsnRange(x) ==
  /\ ~x.neg
  /\ x.hi > 0 \/ x.lo >= 1
  /\ x.hi < 42949 \/ (x.hi = 42949 /\ x.lo <= 67295)

\* The number of decimal digits of a natural number
RECURSIVE NatDigits(_)
NatDigits(n) == IF n < 10 THEN 1 ELSE 1 + NatDigits(n \div 10)

DigitCount(x) == IF x.hi = 0 THEN NatDigits(x.lo) ELSE 5 + NatDigits(x.hi)

\* The ASNs of the blocks of the reports written
Reported == UNION {{f.blocks[k].asn : k \in 1..Len(f.blocks)} : f \in {files[j] : j \in 1..Len(files)}}

\* download_table has returned and get_related_asns is not deriving
TableStepOver == table_resp.k # "none" /\ pc # "derive"

C1_WitnessFailure == pc = "exit" /\ table_resp.k = "error" /\ exit_code = 0

(***************************************************************************)
(* C2, as claimed: whenever the connectivity GET fails or returns a status *)
(* that is not 2xx, main ends with exit code 1 and no analysis stage has   *)
(* started.                                                                *)
(***************************************************************************)
C2_AbortsOnNon2xx ==
  (probe \notin {"none", "200"})
  => (pc = "exit" /\ exit_code = 1 /\ events = <<"probe">>)

(***************************************************************************)
(* C2, amended: main ends with exit code 1 before any analysis stage       *)
(* exactly when the GET fails at the network level; a response of any      *)
(* status, 2xx or not, is followed by run_analysis, which is reached only  *)
(* after a response.                                                       *)
(***************************************************************************)
C2_AbortsOnNetworkFailureOnly ==
  /\ probe = "error" => (pc = "exit" /\ exit_code = 1 /\ events = <<"probe">>)
  /\ probe \in {"200", "500"} => ~(pc = "exit" /\ events = <<"probe">>)
  /\ (Len(events) > 1 \/ pc \in {"step1", "step2", "step3", "derive", "step4",
                                  "batch", "classify", "step5"})
       => probe \in {"200", "500"}

C2_Witness == probe = "error" /\ pc = "exit" /\ exit_code = 1

\* run_analysis at work after a 500
C2_WitnessNon2xx == probe = "500" /\ Has(events, "whois_target")

(***************************************************************************)
(* C3, as claimed: a malformed line of the document is skipped on its own: *)
(* the mapping download_table returns holds every well-formed (CIDR, ASN)  *)
(* line of a downloaded document.                                          *)
(***************************************************************************)
C3_MalformedLinesSkipped ==
  (table_resp.k = "ok")
  => \A i \in 1..Len(table_resp.doc) :
       WellFormedLine(table_resp.doc[i])
       => \E e \in table_data : e.prefix = table_resp.doc[i].CIDR.s

(***************************************************************************)
(* C4: on return of analyze_asn_relationships the two sets together are    *)
(* exactly the related ASNs that are field 0 of a well-formed record of a  *)
(* received response; such an ASN is a potential peer exactly when it has  *)
(* as many decimal digits as the target and is in the other set otherwise. *)
(***************************************************************************)
C4_Partition ==
  (pc = "step5")
  => /\ potential_peers \union non_peers = related_asns \intersect answered
     /\ \A a \in related_asns \intersect answered :
          /\ a \in potential_peers <=> DigitCount(a) = DigitCount(target_asn)
          /\ a \in non_peers <=> DigitCount(a) # DigitCount(target_asn)

\* Two batches answered, ASNs in both sets, and related ASNs in neither
C4_Witness ==
  /\ pc = "step5"
  /\ Len(sent) = 2
  /\ Len(all_results) = 2
  /\ potential_peers # {}
  /\ non_peers # {}
  /\ related_asns \ answered # {}
  /\ target_asn \in answered

(***************************************************************************)
(* C5: the potential-peers set and the other set are disjoint at every     *)
(* point of the classification and on return.                              *)
(***************************************************************************)
C5_Disjoint == potential_peers \intersect non_peers = {}

\* AS65 twice in the first batch's response and once more in the second's,
\* all three records classified
C5_Witness ==
  /\ pc = "classify"
  /\ Len(all_results) = 2
  /\ all_results[1] = Rec(<<"6", "5">>) \o <<"\n">> \o Rec(<<"6", "5">>)
  /\ all_results[2] = Rec(<<"6", "5">>)
  /\ res_i = 3
  /\ Num(65) \in potential_peers

(***************************************************************************)
(* C6: the set get_related_asns returns never holds the target ASN, and    *)
(* the target is in neither of the two sets nor in a report.               *)
(***************************************************************************)
C6_TargetExcluded ==
  /\ target_asn \notin related_asns
  /\ target_asn \notin potential_peers \union non_peers
  /\ target_asn \notin Reported

\* Reports written in a run whose whois response held a record of the target
C6_Witness ==
  /\ Len(files) = 2
  /\ target_asn \in answered
  /\ related_asns # {}
  /\ Reported # {}

(***************************************************************************)
(* C7: for a non-empty table get_related_asns returns exactly the origin   *)
(* ASNs other than the target that originate a prefix with the grouping    *)
(* key of a prefix of the target; none if the target originates no prefix. *)
(***************************************************************************)
C7_RelatedExactly ==
  (table_resp.k = "ok" /\ Has(events, "related"))
  => /\ related_asns = SharingKey(table_data, target_asn)
     /\ (~\E e \in table_data : e.asn = target_asn) => related_asns = {}

\* A table of the target's prefix and a prefix of the same /16
C7_Witness ==
  /\ Has(events, "related")
  /\ table_data = {[prefix |-> P_1_2_3, asn |-> T64], [prefix |-> P_1_2_4, asn |-> Num(65)]}
  /\ related_asns = {Num(65)}

(***************************************************************************)
(* C8: with both flags given and an ASN outside 1..4294967295 or a         *)
(* User-Agent that is empty or has no '@', main ends with exit code 1 and  *)
(* the run performs no network operation; on the interactive path no       *)
(* network operation happens with a User-Agent without '@'.                *)
(***************************************************************************)
C8_InvalidInputNoNetwork ==
  /\ (mode = "flags"
        /\ (~InAsnRange(target_asn) \/ user_agent = <<>> \/ Places(user_agent, "@") = {}))
     => /\ events = <<>>
        /\ open_socks = 0
        /\ pc = "validate" \/ (pc = "exit" /\ exit_code = 1)
  /\ (mode = "interactive" /\ Places(user_agent, "@") = {})
     => (events = <<>> /\ pc \in {"prompt_asn", "prompt_ua"})

\* The flag run with ASN 4294967296 has ended
C8_Witness ==
  /\ mode = "flags"
  /\ target_asn = OverMax
  /\ pc = "exit"
  /\ exit_code = 1

(***************************************************************************)
(* C9, as claimed: no whois call returns while its socket is still open.   *)
(***************************************************************************)
C9_SocketsClosedOnReturn == open_socks = 0

(***************************************************************************)
(* C10, as claimed: the stages of a run happen in the order whois query    *)
(* for the target, table download, ASN-name download, related-ASN          *)
(* derivation, bulk whois queries, classification, report writing.         *)
(***************************************************************************)
RankClaimed(e) ==
  CASE e = "probe" -> 0
    [] e = "whois_target" -> 1
    [] e = "table" -> 2
    [] e = "asn_names" -> 3
    [] e = "related" -> 4
    [] e = "bulk_whois" -> 5
    [] e = "classify" -> 6
    [] e = "write" -> 7

C10_TableBeforeNames ==
  \A i, j \in 1..Len(events) : i < j => RankClaimed(events[i]) <= RankClaimed(events[j])

(***************************************************************************)
(* C10, amended: the stages of a run happen in the order whois query for   *)
(* the target, ASN-name download, table download, related-ASN derivation,  *)
(* bulk whois queries, classification, report writing: the ASN-name        *)
(* directory is downloaded before the route table, each stage but the bulk *)
(* query happens at most once, and no stage happens without all the stages *)
(* before it.                                                              *)
(***************************************************************************)
RankInCode(e) ==
  CASE e = "probe" -> 0
    [] e = "whois_target" -> 1
    [] e = "asn_names" -> 2
    [] e = "table" -> 3
    [] e = "related" -> 4
    [] e = "bulk_whois" -> 5
    [] e = "classify" -> 6
    [] e = "write" -> 7

StageOfRank(r) ==
  CHOOSE e \in {"probe", "whois_target", "asn_names", "table", "related",
                "bulk_whois", "classify", "write"} : RankInCode(e) = r

C10_NamesBeforeTable ==
  /\ \A i, j \in 1..Len(events) :
       i < j => /\ RankInCode(events[i]) <= RankInCode(events[j])
                /\ RankInCode(events[i]) = RankInCode(events[j])
                     => events[i] = "bulk_whois"
  /\ \A i \in 1..Len(events) :
       \A r \in 0..(RankInCode(events[i]) - 1) :
         Has(events, StageOfRank(r))

\* A run that went through every stage
C10_Witness ==
  /\ pc = "exit"
  /\ Has(events, "write")
  /\ Has(events, "bulk_whois")
  /\ Len(files) = 2

(***************************************************************************)
(* C11  Batching of the bulk whois queries                                  *)
(***************************************************************************)

\* ceil(n / d): the least k with k * d >= n
CeilDiv(n, d) == CHOOSE k \in 0..n : k * d >= n /\ (k - 1) * d < n

\* The batches sent so far, one after the other
RECURSIVE Concat(_)
Concat(batches) ==
  IF batches = <<>> THEN <<>>
  ELSE Concat(SubSeq(batches, 1, Len(batches) - 1)) \o batches[Len(batches)]

\* The targets of one batch
Targets(batch) == {batch[j] : j \in 1..Len(batch)}

\* Every target of the list is in exactly one of the batches sent, and no
\* batch holds a target twice
EachSentOnce ==
  /\ \A b \in 1..Len(sent) : Cardinality(Targets(sent[b])) = Len(sent[b])
  /\ \A b, c \in 1..Len(sent) : b # c => Targets(sent[b]) \cap Targets(sent[c]) = {}
  /\ Cardinality(Targets(asn_queries)) = Len(asn_queries)
  /\ Targets(asn_queries) = UNION {Targets(sent[b]) : b \in 1..Len(sent)}

\* C11: for a list of n >= 1 related ASNs the analysis issues ceil(n / 100)
\* bulk queries in list order; no batch holds more than 100 targets, every
\* target is sent in exactly one batch whatever the outcome of the queries
\* (a failed batch is neither retried nor the end of the loop), and each batch
\* is followed by a pause of one second before the next batch starts.
C11_Batching ==
  LET n == Len(asn_queries)
      m == Len(Concat(sent))
  IN (pc \in {"batch", "classify", "step5", "exit"} /\ n >= 1) =>
       /\ n = Len(asn_list)
       /\ \A b \in 1..Len(sent) : Len(sent[b]) \in 1..100
       /\ \A b \in 1..(Len(sent) - 1) : Len(sent[b]) = 100
       /\ m <= n
       /\ Concat(sent) = SubSeq(asn_queries, 1, m)
       /\ sleeps = Len(sent)
       /\ pc = "batch" =>
            /\ \A k \in 1..n : asn_queries[k] = <<"a", "s">> \o Str(asn_list[k])
            /\ Len(sent) < CeilDiv(n, 100)
            /\ m < n
       /\ pc # "batch" =>
            /\ Len(sent) = CeilDiv(n, 100)
            /\ m = n
            /\ EachSentOnce

\* Two batches were sent although both queries failed, each leaving its socket
\* open: the second batch holds the one target the first had no room for.
C11_Witness ==
  /\ pc = "classify"
  /\ Len(asn_queries) = BigN
  /\ Len(sent) = 2
  /\ Len(sent[1]) = batch_size
  /\ Len(sent[2]) = BigN - batch_size
  /\ all_results = <<>>
  /\ open_socks = 2
  /\ sleeps = 2

(***************************************************************************)
(* C12  A run with related ASNs and no exception ends with two reports     *)
(***************************************************************************)

\* The run has ended, step 3 found related ASNs and the handler of lines
\* 423-427 was not entered
EndedWithRelatedAndNoException ==
  /\ pc = "exit"
  /\ Has(events, "related")
  /\ related_asns # {}
  /\ "ERROR during analysis" \notin notices

\* C12: whenever the related-ASN set is non-empty and no exception escapes a
\* stage, the run has written exactly two reports, the potential peers first
\* and the other ASNs second, each with the size of its set as total, and
\* ends with exit code 0, whatever the bulk whois queries returned.
C12_TwoReportsExitZero ==
  EndedWithRelatedAndNoException =>
    /\ Has(events, "write")
    /\ Len(sent) >= 1
    /\ Len(files) = 2
    /\ files[1].kind = "potential_peers"
    /\ files[2].kind = "other_asns"
    /\ files[1].total = Cardinality(potential_peers)
    /\ files[2].total = Cardinality(non_peers)
    /\ Len(files[1].blocks) = files[1].total
    /\ Len(files[2].blocks) = files[2].total
    /\ exit_code = 0
    /\ "Analysis completed successfully!" \in notices

\* Every bulk query failed: both sets are empty, both reports say Total: 0,
\* and the run still ends with exit code 0.
C12_Witness ==
  /\ EndedWithRelatedAndNoException
  /\ Len(sent) >= 1
  /\ all_results = <<>>
  /\ answered = {}
  /\ Len(files) = 2
  /\ files[1].total = 0
  /\ files[2].total = 0
  /\ exit_code = 0

\* The bulk query answered, but with no record of a related ASN
C12_WitnessNoMatch ==
  /\ EndedWithRelatedAndNoException
  /\ all_results # <<>>
  /\ Len(files) = 2
  /\ files[1].total = 0
  /\ files[2].total = 0
  /\ exit_code = 0
====
